---- MODULE Spec2Model ----
(***************************************************************************)
(* Oracles naming real numbers by rational intervals (ratmath-oracles).    *)
(* The model covers the two oracle factories (makeTestOracle,              *)
(* makeAlgorithmOracle), the constructors built on them (fromRational,     *)
(* fromInterval), the narrowing engine (narrow, narrowWithCutter) and the  *)
(* arithmetic composition layer (makeOracle of arithmetic, add, subtract,  *)
(* multiply, divide), the root oracles of roots (nRoot, IVTRoot,           *)
(* KantorovichRoot) and the oracles of a rational of rationals.            *)
(*                                                                         *)
(* Rationals are exact: a rational is a record [num, den] in lowest terms  *)
(* with den > 0, so that structural equality is numeric equality.          *)
(***************************************************************************)
EXTENDS Integers, Sequences, FiniteSets, TLC

(***************************************************************************)
(* Bounds of the model.                                                    *)
(***************************************************************************)
\* Query intervals, prophecies and seeds have integer endpoints in 0..MaxPoint.
MaxPoint == 4

(***************************************************************************)
(* Rational (ratmath): exact fractions.                                    *)
(***************************************************************************)
AbsInt(x) == IF x < 0 THEN -x ELSE x

RECURSIVE GCD(_, _)
GCD(a, b) == IF b = 0 THEN a ELSE GCD(b, a % b)

\* new Rational(n, d): the fraction n/d in lowest terms, denominator positive.
Rational(n, d) ==
  LET g == GCD(AbsInt(n), AbsInt(d))
      s == IF d < 0 THEN -1 ELSE 1
  IN  [num |-> (s * n) \div g, den |-> (s * d) \div g]

RatAdd(x, y)      == Rational(x.num * y.den + y.num * x.den, x.den * y.den)
RatSubtract(x, y) == Rational(x.num * y.den - y.num * x.den, x.den * y.den)
RatMultiply(x, y) == Rational(x.num * y.num, x.den * y.den)
RatDivide(x, y)   == Rational(x.num * y.den, x.den * y.num)
RatAbs(x)         == [num |-> AbsInt(x.num), den |-> x.den]

\* a/b <= c/d for b, d > 0, compared by integer parts and then by the
\* reciprocals of the fractional parts, so that no product is formed
\* (the nudge 1/1000000000 of divide would overflow the integers).
RECURSIVE FracLeq(_, _, _, _)
FracLeq(a, b, c, d) ==
  IF a \div b # c \div d THEN a \div b < c \div d
  ELSE IF a % b = 0 THEN TRUE
  ELSE IF c % d = 0 THEN FALSE
  ELSE FracLeq(d, c % d, b, a % b)

lessThanOrEqual(x, y)    ==
  IF AbsInt(x.num) < 32768 /\ AbsInt(y.num) < 32768 /\ x.den < 32768 /\ y.den < 32768
    THEN x.num * y.den <= y.num * x.den
    ELSE FracLeq(x.num, x.den, y.num, y.den)
lessThan(x, y)           == ~lessThanOrEqual(y, x)
greaterThan(x, y)        == lessThan(y, x)
greaterThanOrEqual(x, y) == lessThanOrEqual(y, x)

Zero == Rational(0, 1)

(***************************************************************************)
(* RationalInterval (ratmath): closed intervals, endpoints given in either *)
(* order; an empty intersection is null.                                   *)
(***************************************************************************)
Null == [null |-> TRUE]

RationalInterval(a, b) ==
  IF lessThanOrEqual(a, b) THEN [low |-> a, high |-> b] ELSE [low |-> b, high |-> a]

intersection(i, j) ==
  LET lo == IF lessThan(i.low, j.low) THEN j.low ELSE i.low
      hi == IF lessThan(i.high, j.high) THEN i.high ELSE j.high
  IN  IF lessThan(hi, lo) THEN Null ELSE [low |-> lo, high |-> hi]

\* i.contains(j): j is a sub-interval of i.
contains(i, j) == lessThanOrEqual(i.low, j.low) /\ lessThanOrEqual(j.high, i.high)

containsValue(i, v) == lessThanOrEqual(i.low, v) /\ lessThanOrEqual(v, i.high)

\* helpers.halo: the interval expanded by delta on both sides.
halo(interval, delta) ==
  RationalInterval(RatSubtract(interval.low, delta), RatAdd(interval.high, delta))


(***************************************************************************)
(* Inputs the model draws from.                                            *)
(***************************************************************************)
Points == {Rational(i, 1) : i \in 0..MaxPoint}

Intervals == {RationalInterval(a, b) : a \in Points, b \in Points}

PointIntervals == {RationalInterval(a, a) : a \in Points}

\* Fuzziness tolerances of queries (delta >= 0).
Deltas == {Rational(0, 1), Rational(1, 2), Rational(1, 1)}

\* Target widths of narrowing requests (precision > 0).
Precisions == {Rational(1, 2), Rational(1, 1)}

\* Answer statuses: 1 (Yes), 0 (No), -1 (Maybe).
Status == {1, 0, -1}

Answer(status, prophecy) == [status |-> status, prophecy |-> prophecy]

\* What a user-supplied test predicate may answer on the interval i: any
\* status; a Yes carries any prophecy or none (the prophecy of a No or a
\* Maybe is never read).
TestAnswers(i) ==
  {Answer(1, p) : p \in Intervals \cup {Null}}
    \cup {Answer(s, Null) : s \in {0, -1}}

(***************************************************************************)
(* State.                                                                  *)
(***************************************************************************)
VARIABLES
  kind,     \* which constructor built the oracle
  seed,     \* the interval, rational or operands the constructor was given
  yes,      \* oracle.yes
  op,       \* the operation that has just returned: "query", "narrowing", ...;
            \* "idle" once its caller has taken the result
  req,      \* its arguments
  ans,      \* the Answer (query) or interval (narrowing) it returned; Null if it threw
  err,      \* the error it threw, "none" if it returned
  calls,    \* the calls it made to the user-supplied predicate / algorithm
  prevYes,  \* oracle.yes when the operation began
  run,      \* the narrow / narrowWithCutter call in progress, Null if none
  other,    \* the oracle the composed oracle is compared with, Null if none
  queue     \* the oracle's AsyncQueue of narrowing tasks

vars == <<kind, seed, yes, op, req, ans, err, calls, prevYes, run, other, queue>>

(***************************************************************************)
(* AsyncQueue: the queue each factory creates for its narrowing tasks.     *)
(* Tasks start in the order they were added, one at a time.                *)
(***************************************************************************)
\* new AsyncQueue()
EmptyQueue == [pending |-> <<>>, running |-> Null, settled |-> 0, last |-> Null]

\* queue.add(task)
queueAdd(q, task) == [q EXCEPT !.pending = Append(@, task)]

\* The queue is free to start its next task.
queueCanStart(q) == q.running = Null /\ q.pending # <<>>

\* The first pending task starts; started is its state.
queueStart(q, started) == [q EXCEPT !.pending = Tail(@), !.running = started]

\* The running task settles with outcome; its promise resolves.  The queue
\* keeps the count of settled tasks and the last outcome.
queueSettle(q, outcome) ==
  [q EXCEPT !.running = Null, !.settled = @ + 1, !.last = outcome]

\* Tasks added to the queue so far.
queueAdded(q) ==
  Len(q.pending) + q.settled + (IF q.running = Null THEN 0 ELSE 1)

(***************************************************************************)
(* functions.ts: the fast path shared by both factories.                   *)
(***************************************************************************)
\* fastPath without the Yes of a yes inside the halo.
fastPath_onlyDisjoint(currentYes, ab, delta) ==
  IF intersection(ab, currentYes) = Null THEN Answer(0, currentYes) ELSE Null

\* fastPath with the containment test made against ab, not its halo.
fastPath_noHalo(currentYes, ab, delta) ==
  IF intersection(ab, currentYes) = Null THEN Answer(0, currentYes)
  ELSE IF contains(ab, currentYes) THEN Answer(1, currentYes)
  ELSE Null

\* The answer of the fast checks, Null when the query is ambiguous.
fastPath(currentYes, ab, delta) ==
  IF intersection(ab, currentYes) = Null THEN Answer(0, currentYes)
  ELSE IF contains(halo(ab, delta), currentYes) THEN Answer(1, currentYes)
  ELSE Null

(***************************************************************************)
(* makeAlgorithmOracle                                                     *)
(***************************************************************************)
\* The intervals alg(current, precision) may return.  A caller-supplied
\* algorithm may return any interval; the algorithm of fromRational and
\* fromInterval returns the interval given at construction.
algResults(k, sd, current, precision) ==
  IF k = "alg" THEN Intervals ELSE {sd}

\* oracle.narrowing(current, precision) when alg returns result: the new
\* oracle.yes.
algNarrowingYes(currentYes, result) == result

\* algRecheck with the containment test made against ab, not its halo.
algRecheck_noHalo(ab, delta, refined) ==
  IF contains(ab, refined) THEN Answer(1, refined)
  ELSE IF intersection(ab, refined) = Null THEN Answer(0, refined)
  ELSE Answer(-1, refined)

\* algRecheck answering No where the query is still ambiguous.
algRecheck_noMaybe(ab, delta, refined) ==
  IF contains(halo(ab, delta), refined) THEN Answer(1, refined)
  ELSE Answer(0, refined)

\* The re-check of the query after narrowing returned refined.
algRecheck(ab, delta, refined) ==
  IF contains(halo(ab, delta), refined) THEN Answer(1, refined)
  ELSE IF intersection(ab, refined) = Null THEN Answer(0, refined)
  ELSE Answer(-1, refined)

\* The oracle call (ab, delta) when alg would return result:
\* the answer, the new yes and the calls made to alg.
algOracleCall(currentYes, ab, delta, result) ==
  LET fast == fastPath(currentYes, ab, delta) IN
  IF fast # Null
    THEN [ans |-> fast, yes |-> currentYes, calls |-> <<>>, err |-> "none"]
    ELSE [ans   |-> algRecheck(ab, delta, result),
          yes   |-> algNarrowingYes(currentYes, result),
          calls |-> <<[fn |-> "alg", current |-> currentYes,
                       precision |-> delta, result |-> result]>>,
          err   |-> "none"]

AlgKinds == {"alg", "fromInterval", "fromRational"}

AlgQuery ==
  /\ op = "idle"
  /\ kind \in AlgKinds
  /\ \E ab \in Intervals, delta \in Deltas :
       \E result \in algResults(kind, seed, yes, delta) :
         LET out == algOracleCall(yes, ab, delta, result) IN
         /\ yes' = out.yes
         /\ ans' = out.ans
         /\ err' = out.err
         /\ calls' = out.calls
         /\ req' = [ab |-> ab, delta |-> delta]
  /\ op' = "query"
  /\ prevYes' = yes
  /\ UNCHANGED <<queue, kind, seed, run, other>>

AlgNarrowing ==
  /\ op = "idle"
  /\ kind \in AlgKinds
  /\ \E precision \in Precisions :
       \E result \in algResults(kind, seed, yes, precision) :
         /\ yes' = algNarrowingYes(yes, result)
         /\ ans' = result
         /\ calls' = <<[fn |-> "alg", current |-> yes,
                        precision |-> precision, result |-> result]>>
         /\ req' = [precision |-> precision]
  /\ err' = "none"
  /\ op' = "narrowing"
  /\ prevYes' = yes
  /\ UNCHANGED <<queue, kind, seed, run, other>>

(***************************************************************************)
(* makeTestOracle                                                          *)
(***************************************************************************)
\* The final result of the predicate: test(ab), and test(halo(ab, delta))
\* when the first answer is Maybe.  r1 and r2 are what the predicate
\* answers on ab and on the halo.
testCalls_noRetry(ab, delta, r1, r2) ==
  <<[fn |-> "test", arg |-> ab, result |-> r1]>>

testCalls(ab, delta, r1, r2) ==
  IF r1.status = -1
    THEN <<[fn |-> "test", arg |-> ab, result |-> r1],
           [fn |-> "test", arg |-> halo(ab, delta), result |-> r2]>>
    ELSE <<[fn |-> "test", arg |-> ab, result |-> r1]>>

\* testProcess installing the prophecy itself as the new yes.
testProcess_overwrite(currentYes, ab, result, made) ==
  IF result.status = 1
    THEN LET prophecy == IF result.prophecy # Null THEN result.prophecy ELSE ab
         IN  IF intersection(currentYes, prophecy) = Null
               THEN [ans |-> Null, yes |-> currentYes, calls |-> made,
                     err |-> "consistency"]
               ELSE [ans |-> Answer(1, prophecy), yes |-> prophecy, calls |-> made,
                     err |-> "none"]
    ELSE [ans |-> Answer(0, currentYes), yes |-> currentYes, calls |-> made,
          err |-> "none"]

\* testProcess passing a prophecy disjoint from yes through as a Yes.
testProcess_noConsistency(currentYes, ab, result, made) ==
  IF result.status = 1
    THEN LET prophecy == IF result.prophecy # Null THEN result.prophecy ELSE ab
             inter    == intersection(currentYes, prophecy)
         IN  IF inter = Null
               THEN [ans |-> Answer(1, prophecy), yes |-> currentYes, calls |-> made,
                     err |-> "none"]
               ELSE [ans |-> Answer(1, inter), yes |-> inter, calls |-> made,
                     err |-> "none"]
    ELSE [ans |-> Answer(0, currentYes), yes |-> currentYes, calls |-> made,
          err |-> "none"]

\* Processing of the predicate's final result (1 or 0).
testProcess(currentYes, ab, result, made) ==
  IF result.status = 1
    THEN LET prophecy == IF result.prophecy # Null THEN result.prophecy ELSE ab
             inter    == intersection(currentYes, prophecy)
         IN  IF inter = Null
               THEN [ans |-> Null, yes |-> currentYes, calls |-> made,
                     err |-> "consistency"]
               ELSE [ans |-> Answer(1, inter), yes |-> inter, calls |-> made,
                     err |-> "none"]
    ELSE [ans |-> Answer(0, currentYes), yes |-> currentYes, calls |-> made,
          err |-> "none"]

\* The oracle call (ab, delta): the answer, the new yes, the calls made to
\* the predicate and the error thrown.
testOracleCall(currentYes, ab, delta, r1, r2) ==
  LET fast == fastPath(currentYes, ab, delta)
      made == testCalls(ab, delta, r1, r2)
      result == made[Len(made)].result
  IN  IF fast # Null
        THEN [ans |-> fast, yes |-> currentYes, calls |-> <<>>, err |-> "none"]
      ELSE IF result.status = -1
        THEN [ans |-> Null, yes |-> currentYes, calls |-> made,
              err |-> "precision"]
      ELSE testProcess(currentYes, ab, result, made)

\* The answers to enumerate for a call of the predicate: those in asked
\* when the query reaches the predicate, one placeholder otherwise.
testAsked(currentYes, ab, delta, placeholder, asked) ==
  IF fastPath(currentYes, ab, delta) # Null THEN placeholder ELSE asked

TestQuery ==
  /\ op = "idle"
  /\ kind = "test"
  /\ \E ab \in Intervals, delta \in Deltas :
       \E r1 \in testAsked(yes, ab, delta, {Answer(0, Null)}, TestAnswers(ab)) :
       \E r2 \in testAsked(yes, ab, delta, {r1},
                           IF r1.status = -1 THEN TestAnswers(halo(ab, delta)) ELSE {r1}) :
         LET out == testOracleCall(yes, ab, delta, r1, r2) IN
         /\ yes' = out.yes
         /\ ans' = out.ans
         /\ err' = out.err
         /\ calls' = out.calls
         /\ req' = [ab |-> ab, delta |-> delta]
  /\ op' = "query"
  /\ prevYes' = yes
  /\ UNCHANGED <<queue, kind, seed, run, other>>

\* Cap on the bisection steps of one narrowing call.
IterCap == 100

\* bisectStep keeping, for a left half answered Yes, the interval of the
\* same width to the left of active.
bisectStep_shifted(active, ansLeft, ansRight, ansMid) ==
  LET mid == RatDivide(RatAdd(active.low, active.high), Rational(2, 1))
      w   == RatSubtract(mid, active.low)
  IN  IF ansLeft = 1 THEN RationalInterval(RatSubtract(active.low, w), active.low)
      ELSE IF ansLeft = 0 \/ ansRight = 1 THEN RationalInterval(mid, active.high)
      ELSE IF ansRight = 0 THEN RationalInterval(active.low, mid)
      ELSE IF ansMid = 1
        THEN RationalInterval(RatDivide(RatAdd(active.low, mid), Rational(2, 1)),
                              RatDivide(RatAdd(mid, active.high), Rational(2, 1)))
      ELSE Null

\* One step of the bisection loop: the next active interval, Null when the
\* loop breaks (left, right and middle all undecided).  ansLeft, ansRight
\* and ansMid are the statuses the predicate gives on the left half, the
\* right half and the middle half.
bisectStep(active, ansLeft, ansRight, ansMid) ==
  LET mid        == RatDivide(RatAdd(active.low, active.high), Rational(2, 1))
      leftHalf   == RationalInterval(active.low, mid)
      rightHalf  == RationalInterval(mid, active.high)
      L1         == RatDivide(RatAdd(active.low, mid), Rational(2, 1))
      R1         == RatDivide(RatAdd(mid, active.high), Rational(2, 1))
      middleHalf == RationalInterval(L1, R1)
  IN  IF ansLeft = 1 THEN leftHalf
      ELSE IF ansLeft = 0 THEN rightHalf
      ELSE IF ansRight = 1 THEN rightHalf
      ELSE IF ansRight = 0 THEN leftHalf
      ELSE IF ansMid = 1 THEN middleHalf
      ELSE Null

\* The intervals the bisection loop may end with, over all the answers the
\* predicate may give.
RECURSIVE bisectionLoop(_, _, _)
bisectionLoop(active, precision, iter) ==
  IF ~(greaterThan(RatSubtract(active.high, active.low), precision) /\ iter < IterCap)
    THEN {active}
    ELSE LET next == {bisectStep(active, l, r, m) : l \in Status, r \in Status, m \in Status}
         IN  UNION {IF n = Null THEN {active} ELSE bisectionLoop(n, precision, iter + 1)
                      : n \in next}

\* oracle.narrowing(current, precision) of a test oracle: what it may
\* return and write to oracle.yes.
testNarrowing(currentYes, precision) ==
  IF lessThanOrEqual(RatSubtract(currentYes.high, currentYes.low), precision)
    THEN {currentYes}
    ELSE bisectionLoop(currentYes, precision, 0)

TestNarrowing ==
  /\ op = "idle"
  /\ kind = "test"
  /\ \E precision \in Precisions :
       \E active \in testNarrowing(yes, precision) :
         /\ yes' = active
         /\ ans' = active
         /\ req' = [precision |-> precision]
  /\ calls' = <<>>
  /\ err' = "none"
  /\ op' = "narrowing"
  /\ prevYes' = yes
  /\ UNCHANGED <<queue, kind, seed, run, other>>

(***************************************************************************)
(* Oracles in use: Init is the oracle as its constructor returns it.       *)
(***************************************************************************)
\* The caller takes the result of the operation; the oracle is idle again.
Return ==
  /\ op # "idle"
  /\ op' = "idle"
  /\ req' = Null
  /\ ans' = Null
  /\ err' = "none"
  /\ calls' = <<>>
  /\ prevYes' = yes
  /\ UNCHANGED <<queue, kind, seed, yes, run, other>>

\* makeTestOracle(initialYes, test) and makeAlgorithmOracle(initialYes, alg)
\* with any initialYes; fromInterval(i) and fromRational(q), whose algorithm
\* keeps the interval given at construction.
Init ==
  /\ kind \in {"test", "alg", "fromInterval", "fromRational"}
  /\ yes \in (IF kind = "fromRational" THEN PointIntervals ELSE Intervals)
  /\ seed = (IF kind \in {"fromInterval", "fromRational"} THEN yes ELSE Null)
  /\ op = "idle"
  /\ req = Null
  /\ ans = Null
  /\ err = "none"
  /\ calls = <<>>
  /\ prevYes = yes
  /\ run = Null
  /\ other = Null
  /\ queue = EmptyQueue

Next == AlgQuery \/ AlgNarrowing \/ TestQuery \/ TestNarrowing \/ Return

Spec == Init /\ [][Next]_vars

(***************************************************************************)
(* ops: interval helpers of the arithmetic and narrowing layers.           *)
(***************************************************************************)
expand(i, delta) ==
  RationalInterval(RatSubtract(i.low, delta), RatAdd(i.high, delta))

intersect(i, j) == intersection(i, j)

\* i lies within delta of target: inside target expanded by delta.
withinDelta(i, target, delta) == contains(expand(target, delta), i)

midpoint(i) == RatDivide(RatAdd(i.low, i.high), Rational(2, 1))

\* high - low
widthRational(i) == RatSubtract(i.high, i.low)

RatMin(S) == CHOOSE x \in S : \A y \in S : lessThanOrEqual(x, y)
RatMax(S) == CHOOSE x \in S : \A y \in S : lessThanOrEqual(y, x)

addIntervals(i, j) ==
  RationalInterval(RatAdd(i.low, j.low), RatAdd(i.high, j.high))

subIntervals(i, j) ==
  RationalInterval(RatSubtract(i.low, j.high), RatSubtract(i.high, j.low))

mulIntervals(i, j) ==
  LET P == {RatMultiply(x, y) : x \in {i.low, i.high}, y \in {j.low, j.high}}
  IN  RationalInterval(RatMin(P), RatMax(P))

\* j does not contain zero.
divIntervals(i, j) ==
  LET Q == {RatDivide(x, y) : x \in {i.low, i.high}, y \in {j.low, j.high}}
  IN  RationalInterval(RatMin(Q), RatMax(Q))

containsZero(i) == lessThanOrEqual(i.low, Zero) /\ lessThanOrEqual(Zero, i.high)

(***************************************************************************)
(* arithmetic: makeOracle and the composed oracles.                        *)
(***************************************************************************)
ArithKinds == {"add", "subtract", "multiply", "divide"}

\* The oracle call (ab, delta) of a composed oracle whose compute would
\* return prophecy.
makeOracleCall(currentYes, ab, delta, prophecy) ==
  LET target         == ab
      expandedTarget == expand(target, delta)
      interYT        == intersect(currentYes, expandedTarget)
  IN  IF interYT = Null
        THEN [ans |-> Answer(0, currentYes), yes |-> currentYes, calls |-> <<>>,
              err |-> "none"]
      ELSE IF interYT.low = currentYes.low /\ interYT.high = currentYes.high
        THEN [ans |-> Answer(1, currentYes), yes |-> currentYes, calls |-> <<>>,
              err |-> "none"]
      ELSE LET interYY == intersect(prophecy, currentYes)
               made    == <<[fn |-> "compute", target |-> target,
                             delta |-> delta, result |-> prophecy]>>
           IN  IF interYY # Null
                 THEN LET refined == interYY
                          yesAns  == /\ intersect(refined, target) # Null
                                     /\ withinDelta(refined, target, delta)
                      IN  [ans |-> Answer(IF yesAns THEN 1 ELSE 0, refined),
                           yes |-> refined, calls |-> made, err |-> "none"]
                 ELSE [ans |-> Answer(0, currentYes), yes |-> currentYes,
                       calls |-> made, err |-> "none"]

\* The interval arithmetic of the operands' yes intervals a and b: the
\* initial yes of the composed oracle, and what its compute returns once
\* the operands are refined.
derive(k, a, b) ==
  IF k = "add" THEN addIntervals(a, b)
  ELSE IF k = "subtract" THEN subIntervals(a, b)
  ELSE IF k = "multiply" THEN mulIntervals(a, b)
  ELSE divIntervals(a, b)

\* compute of a composed oracle whose operands are fromRational oracles:
\* bisect leaves a point operand as it is (its width is 0), so compute
\* re-derives the interval from the operands' yes.
computePoints(k, sd) == derive(k, sd.a, sd.b)

\* The nudge that moves a denominator interval away from zero.
Eps == Rational(1, 1000000000)

\* A divide that seeds its yes from the denominator as it is.
safeDen_unchanged(dYes) == dYes

\* divide: the denominator interval the initial yes is computed from.
safeDen(dYes) ==
  IF ~containsZero(dYes) THEN dYes
  ELSE LET lo == dYes.low
           hi == dYes.high
       IN  IF lessThanOrEqual(hi, Zero) THEN RationalInterval(lo, RatSubtract(hi, Eps))
           ELSE IF greaterThanOrEqual(lo, Zero) THEN RationalInterval(RatAdd(lo, Eps), hi)
           ELSE IF greaterThan(RatAbs(lo), RatAbs(hi))
             THEN RationalInterval(lo, RatMultiply(Rational(-1, 1), Eps))
           ELSE RationalInterval(Eps, hi)

\* The initial yes of add(a, b), subtract(a, b), multiply(a, b) and
\* divide(a, b) from the operands' yes intervals.
initialYes(k, a, b) ==
  IF k = "divide" THEN divIntervals(a, safeDen(b)) ELSE derive(k, a, b)

\* p op q on rationals.
applyOp(k, p, q) ==
  IF k = "add" THEN RatAdd(p, q)
  ELSE IF k = "subtract" THEN RatSubtract(p, q)
  ELSE IF k = "multiply" THEN RatMultiply(p, q)
  ELSE RatDivide(p, q)

(***************************************************************************)
(* narrowing: narrow and narrowWithCutter.  Both loop over awaited oracle  *)
(* calls; one action is one turn of the loop.                              *)
(***************************************************************************)
\* Cap of the loops of narrow and narrowWithCutter.
GuardCap == 10000

\* Turns of a loop the model follows.
MaxGuard == 3

\* oracle(ab, delta) for the oracles the narrowing engine is run on:
\* a fromRational oracle, whose algorithm returns the point given at
\* construction, or an oracle composed from fromRational operands.
oracleCall(k, sd, currentYes, ab, delta) ==
  IF k = "fromRational"
    THEN algOracleCall(currentYes, ab, delta, sd)
    ELSE makeOracleCall(currentYes, ab, delta, computePoints(k, sd))

\* The oracle has a narrowing method (set by both factories; the composed
\* oracles of arithmetic have none).
hasNarrowing(k) == k \in AlgKinds \cup {"test"}

\* while (width(current) > targetWidth && guard++ < 10_000)
loopEnters(r) ==
  /\ greaterThan(widthRational(r.current), RatAbs(r.precision))
  /\ r.guard < GuardCap

\* The rationals a cutter may return.
Cuts == {Rational(n, 2) : n \in 0..(2 * MaxPoint)}

\* narrowWithCutter: the turn of the loop in which the cutter returns cut.
\* The new oracle.yes and the new state of the loop.
cutterTurn(k, sd, currentYes, r, cut) ==
  LET current == r.current
      safeCut == IF lessThan(cut, current.low) THEN current.low
                 ELSE IF greaterThan(cut, current.high) THEN current.high
                 ELSE cut
      left    == RationalInterval(current.low, safeCut)
      leftAns == oracleCall(k, sd, currentYes, left, r.precision)
      answerValue == leftAns.ans.status
  IN  [yes |-> leftAns.yes,
       run |-> IF answerValue = 1
                 THEN [r EXCEPT !.current = left, !.guard = @ + 1]
               ELSE IF answerValue = 0
                 THEN [r EXCEPT !.current = RationalInterval(safeCut, current.high),
                                !.guard = @ + 1]
               ELSE [r EXCEPT !.pc = "break", !.guard = @ + 1]]

\* narrow on an oracle without a narrowing method: one turn of the
\* midpoint bisection.
narrowTurn(k, sd, currentYes, r) ==
  LET current  == r.current
      m        == midpoint(current)
      left     == RationalInterval(current.low, m)
      right    == RationalInterval(m, current.high)
      internalDelta == RatDivide(r.precision, Rational(10, 1))
      leftAns  == oracleCall(k, sd, currentYes, left, internalDelta)
      rightAns == oracleCall(k, sd, leftAns.yes, right, internalDelta)
      leftVal  == leftAns.ans.status
      rightVal == rightAns.ans.status
  IN  [yes |-> rightAns.yes,
       run |-> IF leftVal = 1 THEN [r EXCEPT !.current = left, !.guard = @ + 1]
               ELSE IF rightVal = 1 THEN [r EXCEPT !.current = right, !.guard = @ + 1]
               ELSE IF leftVal = 0 /\ rightVal # 0
                 THEN [r EXCEPT !.current = right, !.guard = @ + 1]
               ELSE IF rightVal = 0 /\ leftVal # 0
                 THEN [r EXCEPT !.current = left, !.guard = @ + 1]
               ELSE [r EXCEPT !.pc = "break", !.guard = @ + 1]]

\* What oracle.narrowing(current, precision) may return: the generic
\* bisection of a test oracle, or what the algorithm returns.
narrowingResults(k, sd, current, precision) ==
  IF k = "test" THEN testNarrowing(current, precision)
  ELSE algResults(k, sd, current, precision)

\* The narrowing method made progress: it returned a proper sub-interval
\* of the interval it started from.
progress(current, next) == contains(current, next) /\ next # current

\* narrow as a single delegation: next = await oracle.narrowing(oracle.yes,
\* precision); oracle.yes = next; return next.
narrowOnce(currentYes, next) == [yes |-> next, result |-> next]

\* narrow on an oracle with a narrowing method, which returns next.
narrowingTurn(r, next) ==
  IF next = r.current
    THEN [r EXCEPT !.pc = "break", !.guard = @ + 1]
    ELSE [r EXCEPT !.current = next, !.guard = @ + 1]

\* narrow(oracle, precision) or narrowWithCutter(oracle, precision, cutter)
\* is called: current = oracle.yes, guard = 0.
NarrowBegin ==
  /\ op = "idle" /\ run = Null
  /\ \E fn \in {"narrow"} \cup (IF kind \in {"alg", "test"} THEN {}
                                ELSE {"narrowWithCutter"}),
        precision \in Precisions :
       run' = [fn |-> fn, precision |-> precision, current |-> yes, guard |-> 0,
               pc |-> "loop", start |-> yes, stalled |-> FALSE]
  /\ UNCHANGED <<queue, kind, seed, yes, op, req, ans, err, calls, prevYes, other>>

CutterTurn ==
  /\ run # Null /\ run.fn = "narrowWithCutter" /\ run.pc = "loop"
  /\ loopEnters(run) /\ run.guard < MaxGuard
  /\ \E cut \in Cuts :
       LET out == cutterTurn(kind, seed, yes, run, cut) IN
       /\ yes' = out.yes
       /\ run' = out.run
  /\ UNCHANGED <<queue, kind, seed, op, req, ans, err, calls, prevYes, other>>

NarrowTurn ==
  /\ run # Null /\ run.fn = "narrow" /\ run.pc = "loop"
  /\ loopEnters(run) /\ run.guard < MaxGuard
  /\ IF hasNarrowing(kind)
       THEN \E next \in narrowingResults(kind, seed, yes, run.precision) :
              /\ yes' = next
              /\ run' = [narrowingTurn(run, next) EXCEPT
                           !.stalled = @ \/ ~progress(run.current, next)]
       ELSE LET out == narrowTurn(kind, seed, yes, run) IN
            /\ yes' = out.yes
            /\ run' = out.run
  /\ UNCHANGED <<queue, kind, seed, op, req, ans, err, calls, prevYes, other>>

\* The loop is over: oracle.yes = current; return current.
NarrowEnd ==
  /\ run # Null
  /\ run.pc = "break" \/ ~loopEnters(run)
  /\ yes' = run.current
  /\ ans' = run.current
  /\ op' = run.fn
  /\ req' = [precision |-> run.precision, stalled |-> run.stalled]
  /\ prevYes' = run.start
  /\ run' = Null
  /\ UNCHANGED <<queue, kind, seed, err, calls, other>>

\* narrow(oracle, precision) in its later form: one call of the oracle's
\* own narrowing method.
NarrowOnce ==
  /\ op = "idle" /\ run = Null /\ hasNarrowing(kind)
  /\ \E precision \in Precisions :
       \E next \in narrowingResults(kind, seed, yes, precision) :
         LET out == narrowOnce(yes, next) IN
         /\ yes' = out.yes
         /\ ans' = out.result
         /\ req' = [precision |-> precision, stalled |-> ~progress(yes, next)]
  /\ op' = "narrowOnce"
  /\ prevYes' = yes
  /\ UNCHANGED <<queue, kind, seed, err, calls, run, other>>

\* The rationals the narrowed oracles name.
Named == {Rational(n, d) : n \in 0..MaxPoint, d \in {1, 2, 10}}
           \cup {RatAdd(Rational(n, 1), Rational(1, 10)) : n \in 0..(MaxPoint - 1)}

\* The operands of the composed oracles.
Operands == {Rational(0, 1), Rational(1, 10), Rational(1, 2), Rational(1, 1), Rational(2, 1)}

\* The rational the oracle names.
named(k, sd) == IF k = "fromRational" THEN sd.low ELSE computePoints(k, sd).low

\* fromRational(q), or an oracle composed from fromRational(p) and
\* fromRational(q), with its yes seeded (o.yes = ...) by an interval that
\* contains the rational it names.
InitNarrow ==
  /\ kind \in {"fromRational", "alg", "test"} \cup ArithKinds
  /\ seed \in (IF kind = "fromRational"
                 THEN {RationalInterval(q, q) : q \in Named}
               ELSE IF kind \in {"alg", "test"} THEN {Null}
               ELSE {[a |-> RationalInterval(p, p), b |-> RationalInterval(q, q)]
                       : p \in Operands, q \in Operands \ {Zero}})
  /\ yes \in (IF kind \in {"alg", "test"} THEN Intervals
              ELSE {W \in Intervals : containsValue(W, named(kind, seed))})
  /\ op = "idle"
  /\ req = Null
  /\ ans = Null
  /\ err = "none"
  /\ calls = <<>>
  /\ prevYes = yes
  /\ run = Null
  /\ other = Null
  /\ queue = EmptyQueue

NextNarrow ==
  NarrowBegin \/ CutterTurn \/ NarrowTurn \/ NarrowEnd \/ NarrowOnce \/ Return

SpecNarrow == InitNarrow /\ [][NextNarrow]_vars

(***************************************************************************)
(* Composed oracles against the oracle of the exact result.                *)
(***************************************************************************)
\* The same query (ab, delta) is put to the composed oracle and to
\* fromRational(p op q).
ArithQuery ==
  /\ op = "idle" /\ kind \in ArithKinds /\ other # Null
  /\ \E ab \in Intervals, delta \in Deltas :
       LET out == makeOracleCall(yes, ab, delta, computePoints(kind, seed))
           exp == algOracleCall(other.yes, ab, delta, other.seed)
       IN  /\ yes' = out.yes
           /\ ans' = out.ans
           /\ err' = out.err
           /\ calls' = out.calls
           /\ req' = [ab |-> ab, delta |-> delta]
           /\ other' = [other EXCEPT !.yes = exp.yes, !.ans = exp.ans]
  /\ op' = "query"
  /\ prevYes' = yes
  /\ UNCHANGED <<queue, kind, seed, run>>

\* The caller takes both answers.
ArithReturn ==
  /\ op # "idle" /\ other # Null
  /\ op' = "idle"
  /\ req' = Null
  /\ ans' = Null
  /\ err' = "none"
  /\ calls' = <<>>
  /\ prevYes' = yes
  /\ other' = [other EXCEPT !.ans = Null]
  /\ UNCHANGED <<queue, kind, seed, yes, run>>

\* op(fromRational(p), fromRational(q)) and fromRational(p op q), with
\* q # 0 for divide.
InitArith ==
  /\ kind \in ArithKinds
  /\ \E p \in Operands, q \in Operands \ (IF kind = "divide" THEN {Zero} ELSE {}) :
       LET r == applyOp(kind, p, q) IN
       /\ seed = [a |-> RationalInterval(p, p), b |-> RationalInterval(q, q)]
       /\ other = [seed |-> RationalInterval(r, r), yes |-> RationalInterval(r, r),
                   ans |-> Null]
  /\ yes = initialYes(kind, seed.a, seed.b)
  /\ op = "idle"
  /\ req = Null
  /\ ans = Null
  /\ err = "none"
  /\ calls = <<>>
  /\ prevYes = yes
  /\ run = Null
  /\ queue = EmptyQueue

NextArith == ArithQuery \/ ArithReturn

SpecArith == InitArith /\ [][NextArith]_vars

(***************************************************************************)
(* Refinement passes of the composed oracles: the compute callbacks of     *)
(* add, subtract, multiply and divide, and the construction of divide.     *)
(* The state is the pair of operand yes intervals (seed.a, seed.b); the    *)
(* composed oracle's own yes is followed in SpecArith.                     *)
(***************************************************************************)
\* Largest whole magnitude of an operand endpoint.
MaxOperand == 2

\* Endpoints of the numerator (first operand) and of the denominator
\* (second operand).
NumerPoints == {Rational(n, 1) : n \in 0..MaxOperand} \cup {Rational(1, 4)}
DenomPoints == NumerPoints \cup {RatMultiply(Rational(-1, 1), x) : x \in NumerPoints}

IntervalsOver(P) ==
  {RationalInterval(pr[1], pr[2]) : pr \in {q \in P \X P : lessThanOrEqual(q[1], q[2])}}

\* Tolerances of the queries that reach compute.
ComputeDeltas == {Rational(1, 2), Rational(2, 1), Rational(8, 1)}

\* ops: the largest and the smallest absolute value in an interval.
getMagnitude(i) == RatMax({RatAbs(i.low), RatAbs(i.high)})

getMinMagnitude(i) ==
  IF containsZero(i) THEN Zero ELSE RatMin({RatAbs(i.low), RatAbs(i.high)})

\* ops.divIntervals divides endpoints: Rational.divide throws on a zero
\* divisor.
divIntervalsThrows(i, j) == j.low = Zero \/ j.high = Zero

\* A divide without the test for the point zero.
divideConstruct_noZeroCheck(nYes, dYes) ==
  [err |-> "none", warned |-> containsZero(dYes), safeDen |-> safeDen(dYes)]

\* divide(numer, denom) up to the call of makeOracle: the throw for a
\* denominator known to be zero, the warning, and the denominator the
\* initial yes is divided by.
divideConstruct(nYes, dYes) ==
  IF dYes.low = Zero /\ dYes.high = Zero
    THEN [err |-> "Division by zero: denominator known to be zero",
          warned |-> FALSE, safeDen |-> Null]
    ELSE [err |-> "none", warned |-> containsZero(dYes), safeDen |-> safeDen(dYes)]

\* add, subtract and multiply construct without a test.
construct(k, a, b) ==
  IF k = "divide" THEN divideConstruct(a, b)
  ELSE [err |-> "none", warned |-> FALSE, safeDen |-> Null]

\* An add that narrows its operands to delta itself.
addSubDelta_full(delta) == delta

\* add and subtract: the tolerance the operands are narrowed to.
addSubDelta(delta) == RatDivide(delta, Rational(2, 1))

\* A multiply that forgets the factor 2.
mulSubDelta_noHalving(a, b, delta) ==
  LET m1 == getMagnitude(a)
      m2 == getMagnitude(b)
      M  == IF greaterThan(m1, m2) THEN m1 ELSE m2
  IN  IF lessThan(M, Rational(1, 2)) THEN delta ELSE RatDivide(delta, M)

\* multiply: the tolerance the operands are narrowed to.
mulSubDelta(a, b, delta) ==
  LET m1 == getMagnitude(a)
      m2 == getMagnitude(b)
      M  == IF greaterThan(m1, m2) THEN m1 ELSE m2
  IN  IF lessThan(M, Rational(1, 2))
        THEN delta
        ELSE RatDivide(delta, RatMultiply(M, Rational(2, 1)))

\* divide: the tolerance the operands are narrowed to.
divSubDelta(numer, denom, delta) ==
  LET nMag == getMagnitude(numer)
      dMin == getMinMagnitude(denom)
  IN  IF dMin = Zero
        THEN RatDivide(delta, Rational(4, 1))
        ELSE RatDivide(RatMultiply(delta, RatMultiply(dMin, dMin)),
                       RatAdd(dMin, nMag))

subDeltaOf(k, a, b, delta) ==
  IF k \in {"add", "subtract"} THEN addSubDelta(delta)
  ELSE IF k = "multiply" THEN mulSubDelta(a, b, delta)
  ELSE divSubDelta(a, b, delta)

\* bisect(oracle, precision) as the operand's yes sees it.  An operand no
\* wider than the precision is not asked at all; otherwise the operand is
\* asked about halves of its interval and each answer may move its yes to
\* an interval inside the one it had.
bisectYes(current, precision, P) ==
  IF lessThanOrEqual(widthRational(current), RatAbs(precision))
    THEN {current}
    ELSE {i \in IntervalsOver(P) : contains(current, i)}

\* divide: the test of the refined denominator dNow.
spansZero(dNow, d) ==
  LET nlo == RatAdd(dNow.low, d)
      nhi == RatSubtract(dNow.high, d)
  IN  lessThanOrEqual(nlo, Zero) /\ greaterThanOrEqual(nhi, Zero)

\* What compute does once both operands are bisected to subDelta: a1 and
\* b1 are their yes intervals now.
afterBisect(k, a1, b1, subDelta) ==
  IF k = "divide" /\ containsZero(b1) /\ spansZero(b1, subDelta)
    THEN [err |-> "Division by zero under requested delta", prophecy |-> Null]
  ELSE IF k = "divide" /\ divIntervalsThrows(a1, b1)
    THEN [err |-> "Division by zero", prophecy |-> Null]
  ELSE [err |-> "none", prophecy |-> derive(k, a1, b1)]

\* op(a, b) is called on two operand oracles.
Construct ==
  /\ op = "idle" /\ other = Null
  /\ LET out == construct(kind, seed.a, seed.b) IN
       /\ err' = out.err
       /\ other' = IF out.err = "none"
                     THEN [warned |-> out.warned, safeDen |-> out.safeDen]
                     ELSE Null
  /\ op' = "construct"
  /\ UNCHANGED <<queue, kind, seed, yes, req, ans, calls, prevYes, run>>

\* A query at tolerance delta that the composed oracle cannot settle from
\* its yes: compute runs.
Compute ==
  /\ op = "idle" /\ other # Null
  /\ \E delta \in ComputeDeltas :
       LET subDelta == subDeltaOf(kind, seed.a, seed.b, delta) IN
       \E a1 \in bisectYes(seed.a, subDelta, NumerPoints),
          b1 \in bisectYes(seed.b, subDelta, DenomPoints) :
         LET out == afterBisect(kind, a1, b1, subDelta) IN
         /\ seed' = [a |-> a1, b |-> b1]
         /\ req' = [delta |-> delta, subDelta |-> subDelta, before |-> seed]
         /\ ans' = out.prophecy
         /\ err' = out.err
  /\ op' = "compute"
  /\ UNCHANGED <<queue, kind, yes, calls, prevYes, run, other>>

\* The caller has the oracle, the prophecy or the error.
ComputeReturn ==
  /\ op # "idle"
  /\ op' = "idle"
  /\ req' = Null
  /\ ans' = Null
  /\ err' = "none"
  /\ UNCHANGED <<queue, kind, seed, yes, calls, prevYes, run, other>>

\* Two operand oracles with their yes intervals; no composed oracle yet.
InitCompute ==
  /\ kind \in ArithKinds
  /\ \E a \in IntervalsOver(NumerPoints), b \in IntervalsOver(DenomPoints) :
       seed = [a |-> a, b |-> b]
  /\ other = Null
  /\ yes = Null
  /\ op = "idle"
  /\ req = Null
  /\ ans = Null
  /\ err = "none"
  /\ calls = <<>>
  /\ prevYes = Null
  /\ run = Null
  /\ queue = EmptyQueue

NextCompute == Construct \/ Compute \/ ComputeReturn

SpecCompute == InitCompute /\ [][NextCompute]_vars

(***************************************************************************)
(* roots: nRoot, the oracle of the n-th root of q by Newton's method.  The *)
(* closure keeps currentGuess and currentPartner (run) and currentYes      *)
(* (yes).                                                                  *)
(***************************************************************************)
\* Largest radicand q.
MaxRadicand == 4

\* Cap on the Newton steps of one narrowing call.
NewtonCap == 100

Radicands == {Rational(q, 1) : q \in 1..MaxRadicand}
Guesses   == {Rational(1, 1), Rational(3, 2), Rational(2, 1)}
Degrees   == {2, 3}

\* Precisions asked of an n-th root; those of a cube root are coarse, the
\* cubes of later iterates being too large to compute here.
RootPrecisions(n) ==
  IF n = 2 THEN {Rational(1, 1), Rational(1, 4), Rational(1, 10)}
  ELSE {Rational(3, 1), Rational(3, 2)}

\* Rational.pow
RECURSIVE RatPow(_, _)
RatPow(x, k) == IF k = 0 THEN Rational(1, 1) ELSE RatMultiply(x, RatPow(x, k - 1))

getInterval(g, p) ==
  LET low  == IF lessThan(g, p) THEN g ELSE p
      high == IF lessThan(g, p) THEN p ELSE g
  IN  RationalInterval(low, high)

\* q / guess^(n-1)
partnerOf(q, guess, n) == RatDivide(q, RatPow(guess, n - 1))

\* A step to the mean of guess and partner, whatever n is.
newtonStep_mean(guess, partner, n) ==
  RatDivide(RatAdd(guess, partner), Rational(2, 1))

\* nextGuess = ((n-1) * currentGuess + currentPartner) / n
newtonStep(guess, partner, n) ==
  RatDivide(RatAdd(RatMultiply(guess, Rational(n - 1, 1)), partner), Rational(n, 1))

\* The loop of oracle.narrowing from the closure state st = [guess,
\* partner, yes]: the state it ends in and the states after each step.
RECURSIVE newtonLoop(_, _, _, _, _, _)
newtonLoop(q, n, st, precision, iter, steps) ==
  IF greaterThan(RatSubtract(st.yes.high, st.yes.low), precision) /\ iter < NewtonCap
    THEN LET nextGuess == newtonStep(st.guess, st.partner, n)
             partner   == partnerOf(q, nextGuess, n)
             next      == [guess |-> nextGuess, partner |-> partner,
                           yes |-> getInterval(nextGuess, partner)]
         IN  newtonLoop(q, n, next, precision, iter + 1, Append(steps, next))
    ELSE [st |-> st, steps |-> steps]

\* The oracle call of nRoot: yes is read, never changed.
nRootCall(currentYes, ab, delta) ==
  IF intersection(ab, currentYes) = Null THEN Answer(0, currentYes)
  ELSE IF contains(halo(ab, delta), currentYes) THEN Answer(1, currentYes)
  ELSE Answer(0, currentYes)

\* oracle(ab, delta)
NRootQuery ==
  /\ op = "idle"
  /\ \E ab \in {RationalInterval(Rational(1, 1), Rational(2, 1)),
                RationalInterval(Rational(0, 1), Rational(1, 1))},
        delta \in {Rational(1, 2), Rational(2, 1)} :
       /\ ans' = [answer |-> nRootCall(yes, ab, delta),
                  extra |-> [guess |-> run.guess, partner |-> run.partner]]
       /\ req' = [ab |-> ab, delta |-> delta]
  /\ op' = "query"
  /\ UNCHANGED <<queue, kind, seed, yes, err, calls, prevYes, run, other>>

\* oracle.narrowing(current, precision): current is not read.
NRootNarrowing ==
  /\ op = "idle"
  /\ \E precision \in RootPrecisions(seed.n) :
       LET out == newtonLoop(seed.q, seed.n,
                             [guess |-> run.guess, partner |-> run.partner, yes |-> yes],
                             precision, 0, <<>>)
       IN  /\ run' = [guess |-> out.st.guess, partner |-> out.st.partner]
           /\ yes' = out.st.yes
           /\ ans' = out.st.yes
           /\ calls' = out.steps
           /\ req' = [precision |-> precision,
                      before |-> [guess |-> run.guess, partner |-> run.partner,
                                  yes |-> yes]]
  /\ op' = "narrowing"
  /\ prevYes' = yes
  /\ UNCHANGED <<queue, kind, seed, err, other>>

\* The caller has the answer or the interval.
NRootReturn ==
  /\ op # "idle"
  /\ op' = "idle"
  /\ req' = Null
  /\ ans' = Null
  /\ calls' = <<>>
  /\ prevYes' = yes
  /\ UNCHANGED <<queue, kind, seed, yes, err, run, other>>

\* nRoot(q, guess, n)
InitRoot ==
  /\ kind = "nRoot"
  /\ \E q \in Radicands, guess \in Guesses, n \in Degrees :
       /\ seed = [q |-> q, guess |-> guess, n |-> n]
       /\ run = [guess |-> guess, partner |-> partnerOf(q, guess, n)]
       /\ yes = getInterval(guess, partnerOf(q, guess, n))
  /\ op = "idle"
  /\ req = Null
  /\ ans = Null
  /\ err = "none"
  /\ calls = <<>>
  /\ prevYes = yes
  /\ other = Null
  /\ queue = EmptyQueue

NextRoot == NRootQuery \/ NRootNarrowing \/ NRootReturn

SpecRoot == InitRoot /\ [][NextRoot]_vars

(***************************************************************************)
(* roots: IVTRoot, the oracle of a root of f bracketed by a sign change.   *)
(* f is one of a few polynomials, seed.f = [deg, c] standing for           *)
(* x^deg - c.                                                              *)
(***************************************************************************)
\* Largest endpoint of the initial interval of IVTRoot.
MaxEnd == 2

\* Cap on the bisections of one narrowing call of IVTRoot.
IVTCap == 100

IVTFunctions ==
  {[deg |-> 1, c |-> Rational(3, 4)], [deg |-> 1, c |-> Rational(1, 3)],
   [deg |-> 2, c |-> Rational(2, 1)], [deg |-> 2, c |-> Rational(1, 4)]}

\* f(x)
fEval(f, x) == RatSubtract(RatPow(x, f.deg), f.c)

IVTEnds == {Rational(k, 1) : k \in 0..MaxEnd}

\* Query intervals of the root oracles, on both sides of zero.
RootQueryEnds == {Rational(k, 2) : k \in -4..4}
RootQueries   == IntervalsOver(RootQueryEnds)
RootDeltas    == {Zero, Rational(1, 4), Rational(1, 1)}

IVTPrecisions == {Rational(1, 1), Rational(1, 2), Rational(1, 8)}

\* A bisection that always keeps the left half.
ivtHalf_left(f, active, mid) == RationalInterval(active.low, mid)

\* The half of active the loop goes on with, f(mid) # 0.
ivtHalf(f, active, mid) ==
  IF lessThan(RatMultiply(fEval(f, active.low), fEval(f, mid)), Zero)
    THEN RationalInterval(active.low, mid)
    ELSE RationalInterval(mid, active.high)

\* The loop of oracle.narrowing: the interval it ends with and the
\* intervals after each turn.
RECURSIVE ivtLoop(_, _, _, _, _)
ivtLoop(f, active, precision, iter, steps) ==
  IF greaterThan(RatSubtract(active.high, active.low), precision) /\ iter < IVTCap
    THEN LET mid == RatDivide(RatAdd(active.low, active.high), Rational(2, 1)) IN
         IF fEval(f, mid) = Zero
           THEN [active |-> RationalInterval(mid, mid),
                 steps |-> Append(steps, RationalInterval(mid, mid))]
           ELSE LET next == ivtHalf(f, active, mid)
                IN  ivtLoop(f, next, precision, iter + 1, Append(steps, next))
    ELSE [active |-> active, steps |-> steps]

\* The oracle call of IVTRoot.
ivtCall(f, currentYes, ab, delta) ==
  IF lessThan(RatMultiply(fEval(f, ab.low), fEval(f, ab.high)), Zero)
    THEN Answer(1, ab)
    ELSE Answer(0, currentYes)

\* oracle(ab, delta)
IVTQuery ==
  /\ op = "idle"
  /\ \E ab \in RootQueries, delta \in RootDeltas :
       /\ ans' = ivtCall(seed.f, yes, ab, delta)
       /\ req' = [ab |-> ab, delta |-> delta]
  /\ op' = "query"
  /\ prevYes' = yes
  /\ UNCHANGED <<queue, kind, seed, yes, err, calls, run, other>>

\* oracle.narrowing(current, precision): current is not read.
IVTNarrowing ==
  /\ op = "idle"
  /\ \E precision \in IVTPrecisions :
       LET out == ivtLoop(seed.f, yes, precision, 0, <<>>) IN
       /\ yes' = out.active
       /\ ans' = out.active
       /\ calls' = out.steps
       /\ req' = [precision |-> precision]
  /\ op' = "narrowing"
  /\ prevYes' = yes
  /\ UNCHANGED <<queue, kind, seed, err, run, other>>

\* The caller has the answer or the interval.
IVTReturn ==
  /\ op # "idle"
  /\ op' = "idle"
  /\ req' = Null
  /\ ans' = Null
  /\ calls' = <<>>
  /\ prevYes' = yes
  /\ UNCHANGED <<queue, kind, seed, yes, err, run, other>>

\* IVTRoot(f, initial) with f(a) * f(b) < 0.
InitIVT ==
  /\ kind = "IVTRoot"
  /\ \E f \in IVTFunctions, initial \in IntervalsOver(IVTEnds) :
       /\ lessThan(RatMultiply(fEval(f, initial.low), fEval(f, initial.high)), Zero)
       /\ seed = [f |-> f, initial |-> initial]
       /\ yes = initial
  /\ op = "idle"
  /\ req = Null
  /\ ans = Null
  /\ err = "none"
  /\ calls = <<>>
  /\ prevYes = yes
  /\ run = Null
  /\ other = Null
  /\ queue = EmptyQueue

NextIVT == IVTQuery \/ IVTNarrowing \/ IVTReturn

SpecIVT == InitIVT /\ [][NextIVT]_vars

(***************************************************************************)
(* roots: KantorovichRoot, Newton's method with the radius r = 2 * beta.   *)
(* seed = [f, guess, maxpp, minp]; the closure keeps currentGuess (run)    *)
(* and currentYes (yes).  Before construction there is no oracle.          *)
(***************************************************************************)
\* Largest lower bound minp of |f'| given to KantorovichRoot.
MaxMinp == 3

\* Cap on the Newton steps of one narrowing call of KantorovichRoot.
KantorovichCap == 100

KFunctions  == {[deg |-> 2, c |-> Rational(2, 1)], [deg |-> 2, c |-> Rational(3, 1)],
                [deg |-> 1, c |-> Rational(1, 2)]}
KMaxpps     == {Rational(2, 1), Rational(4, 1)}
KMinps      == {Rational(k, 1) : k \in 1..MaxMinp}
KPrecisions == {Rational(1, 2), Rational(1, 10), Rational(1, 50)}

\* f'(x) for f = x^deg - c
fprimeEval(f, x) == RatMultiply(Rational(f.deg, 1), RatPow(x, f.deg - 1))

\* calcState(g)
calcState(f, maxpp, minp, g) ==
  LET val   == fEval(f, g)
      der   == fprimeEval(f, g)
      beta  == RatAbs(RatDivide(val, der))
      r     == RatMultiply(beta, Rational(2, 1))
      gamma == RatDivide(maxpp, RatMultiply(minp, Rational(2, 1)))
      h     == RatMultiply(beta, gamma)
  IN  [beta |-> beta, r |-> r, h |-> h, val |-> val, der |-> der]

\* A test that also rejects h = 1/4.
conditionFailed_orEqual(h) == greaterThanOrEqual(h, Rational(1, 4))

\* The Kantorovich condition fails.
conditionFailed(h) == greaterThan(h, Rational(1, 4))

\* KantorovichRoot(params) up to the definition of the oracle.
kantorovichConstruct(f, guess, maxpp, minp) ==
  LET st == calcState(f, maxpp, minp, guess) IN
  IF conditionFailed(st.h)
    THEN [err |-> "Kantorovich condition failed", guess |-> Null, yes |-> Null]
    ELSE [err |-> "none", guess |-> guess,
          yes |-> RationalInterval(RatSubtract(guess, st.r), RatAdd(guess, st.r))]

\* The loop of oracle.narrowing from currentGuess g and currentYes y.
RECURSIVE kantorovichLoop(_, _, _, _, _, _)
kantorovichLoop(sd, g, y, precision, iter, steps) ==
  IF greaterThan(RatSubtract(y.high, y.low), precision) /\ iter < KantorovichCap
    THEN LET st        == calcState(sd.f, sd.maxpp, sd.minp, g)
             nextGuess == RatSubtract(g, RatDivide(st.val, st.der))
             newR      == calcState(sd.f, sd.maxpp, sd.minp, nextGuess).r
             next      == RationalInterval(RatSubtract(nextGuess, newR),
                                           RatAdd(nextGuess, newR))
         IN  kantorovichLoop(sd, nextGuess, next, precision, iter + 1,
                             Append(steps, [guess |-> nextGuess, yes |-> next]))
    ELSE [guess |-> g, yes |-> y, steps |-> steps]

\* The oracle call of KantorovichRoot: yes is read, never changed.
kantorovichCall(currentYes, ab, delta) ==
  IF intersection(ab, currentYes) = Null THEN Answer(0, currentYes)
  ELSE IF contains(halo(ab, delta), currentYes) THEN Answer(1, currentYes)
  ELSE Answer(0, currentYes)

\* KantorovichRoot({f, fprime, guess, domain, maxpp, minp})
KConstruct ==
  /\ op = "idle" /\ run = Null
  /\ LET out == kantorovichConstruct(seed.f, seed.guess, seed.maxpp, seed.minp) IN
       /\ err' = out.err
       /\ yes' = out.yes
       /\ run' = IF out.err = "none" THEN [guess |-> out.guess] ELSE Null
  /\ op' = "construct"
  /\ UNCHANGED <<queue, kind, seed, req, ans, calls, prevYes, other>>

\* oracle(ab, delta)
KQuery ==
  /\ op = "idle" /\ run # Null
  /\ \E ab \in RootQueries, delta \in RootDeltas :
       /\ ans' = kantorovichCall(yes, ab, delta)
       /\ req' = [ab |-> ab, delta |-> delta]
  /\ op' = "query"
  /\ UNCHANGED <<queue, kind, seed, yes, err, calls, prevYes, run, other>>

\* oracle.narrowing(current, precision): current is not read.
KNarrowing ==
  /\ op = "idle" /\ run # Null
  /\ \E precision \in KPrecisions :
       LET out == kantorovichLoop(seed, run.guess, yes, precision, 0, <<>>) IN
       /\ run' = [guess |-> out.guess]
       /\ yes' = out.yes
       /\ ans' = out.yes
       /\ calls' = out.steps
       /\ req' = [precision |-> precision]
  /\ op' = "narrowing"
  /\ UNCHANGED <<queue, kind, seed, err, prevYes, other>>

\* The caller has the oracle, the answer, the interval or the error.
KReturn ==
  /\ op # "idle"
  /\ op' = "idle"
  /\ req' = Null
  /\ ans' = Null
  /\ err' = "none"
  /\ calls' = <<>>
  /\ UNCHANGED <<queue, kind, seed, yes, prevYes, run, other>>

\* The parameters of a call of KantorovichRoot, f'(guess) # 0.
InitKantorovich ==
  /\ kind = "KantorovichRoot"
  /\ \E f \in KFunctions, guess \in Guesses, maxpp \in KMaxpps, minp \in KMinps :
       seed = [f |-> f, guess |-> guess, maxpp |-> maxpp, minp |-> minp]
  /\ yes = Null
  /\ run = Null
  /\ op = "idle"
  /\ req = Null
  /\ ans = Null
  /\ err = "none"
  /\ calls = <<>>
  /\ prevYes = Null
  /\ other = Null
  /\ queue = EmptyQueue

NextKantorovich == KConstruct \/ KQuery \/ KNarrowing \/ KReturn

SpecKantorovich == InitKantorovich /\ [][NextKantorovich]_vars

(***************************************************************************)
(* rationals: the oracles of a rational q built on makeTestOracle, with    *)
(* the default initial yes q:q.  seed is q.                                *)
(***************************************************************************)
RationalKinds == {"singular", "reflexive", "fuzzyReflexive", "halo", "random"}

\* Tolerances of the queries, a negative one included.
RationalDeltas == Deltas \cup {Rational(-1, 2)}

\* A predicate that never finds q.
rationalTest_alwaysNo(k, q, ab) == Answer(0, Null)

\* The predicate each constructor hands to makeTestOracle.
rationalTest(k, q, ab) ==
  LET qq == RationalInterval(q, q) IN
  IF containsValue(ab, q)
    THEN IF k = "singular" THEN Answer(1, qq) ELSE Answer(1, ab)
    ELSE IF k \in {"singular", "reflexive"} THEN Answer(0, qq)
         ELSE IF k = "fuzzyReflexive" THEN Answer(0, Null)
         ELSE Answer(0, ab)

\* oracle(ab, delta, input): input is not read.
RationalQuery ==
  /\ op = "idle"
  /\ \E ab \in Intervals, delta \in RationalDeltas :
       LET out == testOracleCall(yes, ab, delta, rationalTest(kind, seed, ab),
                                 rationalTest(kind, seed, halo(ab, delta)))
       IN  /\ yes' = out.yes
           /\ ans' = out.ans
           /\ err' = out.err
           /\ calls' = out.calls
           /\ req' = [ab |-> ab, delta |-> delta]
  /\ op' = "query"
  /\ prevYes' = yes
  /\ UNCHANGED <<queue, kind, seed, run, other>>

\* oracle.narrowing(current, precision)
RationalNarrowing ==
  /\ op = "idle"
  /\ \E precision \in Precisions :
       \E active \in testNarrowing(yes, precision) :
         /\ yes' = active
         /\ ans' = active
         /\ req' = [precision |-> precision]
  /\ calls' = <<>>
  /\ err' = "none"
  /\ op' = "narrowing"
  /\ prevYes' = yes
  /\ UNCHANGED <<queue, kind, seed, run, other>>

\* singularOracle(q), reflexiveOracle(q), fuzzyReflexiveOracle(q),
\* haloOracle(q), randomOracle(q, randomFunc)
InitRational ==
  /\ kind \in RationalKinds
  /\ seed \in Points
  /\ yes = RationalInterval(seed, seed)
  /\ op = "idle"
  /\ req = Null
  /\ ans = Null
  /\ err = "none"
  /\ calls = <<>>
  /\ prevYes = yes
  /\ run = Null
  /\ other = Null
  /\ queue = EmptyQueue

NextRational == RationalQuery \/ RationalNarrowing \/ Return

SpecRational == InitRational /\ [][NextRational]_vars

(***************************************************************************)
(* rationals: bisectionOracle(q, r0, maxIterations), built on              *)
(* makeAlgorithmOracle.  seed is [q, r0, maxIterations]; run is ri, the    *)
(* state kept by the closure.                                              *)
(***************************************************************************)
\* Largest maxIterations handed to bisectionOracle.
MaxIterations == 2

\* Cap on the halving steps of one call of alg.
BisectionCap == 100

\* Tolerances and precisions of the calls; all positive.
BisectionDeltas == {Rational(1, 8), Rational(1, 2), Rational(1, 1)}

\* The interval q:ri
qri(q, ri) == IF lessThan(q, ri) THEN RationalInterval(q, ri) ELSE RationalInterval(ri, q)

\* The loop of alg(current, precision): the ri it ends with and the ri after
\* each halving step.  current and maxIterations are not read.
RECURSIVE bisectionAlg(_, _, _, _, _)
bisectionAlg(q, curRi, precision, currentIteration, steps) ==
  IF greaterThan(RatAbs(RatSubtract(curRi, q)), precision) /\ currentIteration < BisectionCap
    THEN LET next == RatDivide(RatAdd(curRi, q), Rational(2, 1))
         IN  bisectionAlg(q, next, precision, currentIteration + 1, Append(steps, next))
    ELSE [ri |-> curRi, steps |-> steps]

\* oracle(ab, delta)
BisectionQuery ==
  /\ op = "idle"
  /\ \E ab \in Intervals, delta \in BisectionDeltas :
       LET loop == bisectionAlg(seed.q, run, delta, 0, <<>>)
           out  == algOracleCall(yes, ab, delta, qri(seed.q, loop.ri))
       IN  /\ yes' = out.yes
           /\ ans' = out.ans
           /\ err' = out.err
           /\ calls' = IF out.calls = <<>> THEN <<>> ELSE loop.steps
           /\ run' = IF out.calls = <<>> THEN run ELSE loop.ri
           /\ req' = [ab |-> ab, delta |-> delta]
  /\ op' = "query"
  /\ prevYes' = yes
  /\ UNCHANGED <<queue, kind, seed, other>>

\* oracle.narrowing(current, precision)
BisectionNarrowing ==
  /\ op = "idle"
  /\ \E precision \in BisectionDeltas :
       LET loop == bisectionAlg(seed.q, run, precision, 0, <<>>) IN
       /\ yes' = algNarrowingYes(yes, qri(seed.q, loop.ri))
       /\ ans' = qri(seed.q, loop.ri)
       /\ calls' = loop.steps
       /\ run' = loop.ri
       /\ req' = [precision |-> precision]
  /\ err' = "none"
  /\ op' = "narrowing"
  /\ prevYes' = yes
  /\ UNCHANGED <<queue, kind, seed, other>>

\* The caller has the answer or the interval.
BisectionReturn ==
  /\ op # "idle"
  /\ op' = "idle"
  /\ req' = Null
  /\ ans' = Null
  /\ calls' = <<>>
  /\ prevYes' = yes
  /\ UNCHANGED <<queue, kind, seed, yes, err, run, other>>

\* bisectionOracle(q, r0, maxIterations)
InitBisection ==
  /\ kind = "bisection"
  /\ \E q \in Points, r0 \in Points, maxIterations \in 1..MaxIterations :
       /\ seed = [q |-> q, r0 |-> r0, maxIterations |-> maxIterations]
       /\ run = r0
       /\ yes = qri(q, r0)
  /\ op = "idle"
  /\ req = Null
  /\ ans = Null
  /\ err = "none"
  /\ calls = <<>>
  /\ prevYes = yes
  /\ other = Null
  /\ queue = EmptyQueue

NextBisection == BisectionQuery \/ BisectionNarrowing \/ BisectionReturn

SpecBisection == InitBisection /\ [][NextBisection]_vars

(***************************************************************************)
(* Concurrent narrowing requests on one oracle.  oracle.narrowing wraps    *)
(* its whole body in queue.add; the body awaits the predicate or the       *)
(* algorithm, so other callers run between its steps.                      *)
(***************************************************************************)
\* Narrowing requests submitted to one oracle.
MaxRequests == 3

\* The task oracle.narrowing(current, precision) adds to the queue.
narrowingTask(id, current, precision) ==
  [id |-> id, current |-> current, precision |-> precision]

\* narrowingBegin working from the argument current, not from oracle.yes.
narrowingBegin_fromArgument(k, task, oracleYes) ==
  [id |-> task.id, precision |-> task.precision,
   read |-> task.current, active |-> task.current, iter |-> 0,
   pc |-> IF k # "test" THEN "alg"
          ELSE IF lessThanOrEqual(RatSubtract(task.current.high, task.current.low),
                                  task.precision)
            THEN "return" ELSE "loop"]

\* The task starts: it reads oracle.yes.  A test oracle returns at once
\* when yes is narrow enough; an algorithm oracle awaits alg.
narrowingBegin(k, task, oracleYes) ==
  [id |-> task.id, precision |-> task.precision,
   read |-> oracleYes, active |-> oracleYes, iter |-> 0,
   pc |-> IF k # "test" THEN "alg"
          ELSE IF lessThanOrEqual(RatSubtract(oracleYes.high, oracleYes.low),
                                  task.precision)
            THEN "return" ELSE "loop"]

\* The bisection loop of a running test-oracle task goes round again.
bisectionContinues(t) ==
  /\ t.pc = "loop"
  /\ greaterThan(RatSubtract(t.active.high, t.active.low), t.precision)
  /\ t.iter < IterCap

\* What the promise of a settled task resolves to, with what the task read.
narrowingOutcome(t, result) ==
  [id |-> t.id, precision |-> t.precision, read |-> t.read, result |-> result,
   stuck |-> t.pc = "stuck"]

\* A caller calls oracle.narrowing(oracle.yes, precision).
Submit ==
  /\ queueAdded(queue) < MaxRequests
  /\ \E precision \in Precisions :
       queue' = queueAdd(queue, narrowingTask(queueAdded(queue) + 1, yes, precision))
  /\ UNCHANGED <<kind, seed, yes, op, req, ans, err, calls, prevYes, run, other>>

\* The queue starts its next task.
TaskBegin ==
  /\ queueCanStart(queue)
  /\ queue' = queueStart(queue, narrowingBegin(kind, Head(queue.pending), yes))
  /\ UNCHANGED <<kind, seed, yes, op, req, ans, err, calls, prevYes, run, other>>

\* One turn of the bisection loop, between awaits of the predicate.
TaskBisect ==
  /\ queue.running # Null /\ kind = "test"
  /\ bisectionContinues(queue.running)
  /\ \E l \in Status, r \in Status, m \in Status :
       LET n == bisectStep(queue.running.active, l, r, m) IN
       queue' = [queue EXCEPT !.running =
                   IF n = Null THEN [@ EXCEPT !.pc = "stuck"]
                   ELSE [@ EXCEPT !.active = n, !.iter = @ + 1]]
  /\ UNCHANGED <<kind, seed, yes, op, req, ans, err, calls, prevYes, run, other>>

\* The task of a test oracle ends: return active at once, or
\* oracle.yes = active; return active.
TestTaskEnd ==
  /\ queue.running # Null /\ kind = "test"
  /\ ~bisectionContinues(queue.running)
  /\ yes' = (IF queue.running.pc = "return" THEN yes ELSE queue.running.active)
  /\ queue' = queueSettle(queue, narrowingOutcome(queue.running, queue.running.active))
  /\ UNCHANGED <<kind, seed, op, req, ans, err, calls, prevYes, run, other>>

\* alg returns: oracle.yes = result; return result.
AlgTaskEnd ==
  /\ queue.running # Null /\ kind \in AlgKinds
  /\ \E result \in algResults(kind, seed, queue.running.read, queue.running.precision) :
       /\ yes' = algNarrowingYes(yes, result)
       /\ queue' = queueSettle(queue, narrowingOutcome(queue.running, result))
  /\ UNCHANGED <<kind, seed, op, req, ans, err, calls, prevYes, run, other>>

\* makeTestOracle(initialYes, test) or makeAlgorithmOracle(initialYes, alg).
InitQueue ==
  /\ kind \in {"test", "alg"}
  /\ yes \in Intervals
  /\ seed = Null
  /\ op = "idle"
  /\ req = Null
  /\ ans = Null
  /\ err = "none"
  /\ calls = <<>>
  /\ prevYes = yes
  /\ run = Null
  /\ other = Null
  /\ queue = EmptyQueue

NextQueue == Submit \/ TaskBegin \/ TaskBisect \/ TestTaskEnd \/ AlgTaskEnd

SpecQueue == InitQueue /\ [][NextQueue]_vars

(***************************************************************************)
(* A query on a makeTestOracle oracle while narrowing tasks are in the     *)
(* queue.  The oracle is reflexiveOracle(q, initialYes): seed is q and the *)
(* predicate answers Yes on the intervals that contain q.  The oracle call *)
(* is not queued: it runs up to its await of the predicate, and goes on    *)
(* when the predicate has answered.  other keeps the yes the last query    *)
(* wrote while a task was running, with the id of that task.               *)
(***************************************************************************)
\* oracle(ab, delta) up to the await: currentYes is read and the fast
\* checks are made.
QueryBegin ==
  /\ op = "idle"
  /\ \E ab \in Intervals, delta \in Deltas :
       LET fast == fastPath(yes, ab, delta) IN
       /\ req' = [ab |-> ab, delta |-> delta]
       /\ ans' = fast
       /\ op' = IF fast # Null THEN "query" ELSE "asking"
  /\ prevYes' = yes
  /\ UNCHANGED <<queue, kind, seed, yes, err, calls, run, other>>

\* The predicate has answered: the result is processed against oracle.yes
\* as it is now; a No carries the currentYes read before the await.
QueryEnd ==
  /\ op = "asking"
  /\ LET result == rationalTest("reflexive", seed, req.ab)
         made   == testCalls(req.ab, req.delta, result, result)
         out    == testProcess(yes, req.ab, result, made)
     IN  /\ yes' = out.yes
         /\ ans' = IF result.status = 0 THEN Answer(0, prevYes) ELSE out.ans
         /\ err' = out.err
         /\ calls' = out.calls
         /\ other' = IF out.yes = yes THEN other
                      ELSE IF queue.running = Null THEN Null
                      ELSE [tightened |-> out.yes, during |-> queue.running.id]
  /\ op' = "query"
  /\ UNCHANGED <<queue, kind, seed, req, prevYes, run>>

\* The caller has the answer.
QueryReturn ==
  /\ op = "query"
  /\ op' = "idle"
  /\ req' = Null
  /\ ans' = Null
  /\ err' = "none"
  /\ calls' = <<>>
  /\ prevYes' = yes
  /\ UNCHANGED <<queue, kind, seed, yes, run, other>>

\* One turn of the bisection loop of the running task, with the answers
\* of the predicate on the left half (the others are not asked for: the
\* predicate never answers Maybe).
ReflexiveBisect ==
  /\ queue.running # Null
  /\ bisectionContinues(queue.running)
  /\ LET active   == queue.running.active
         mid      == RatDivide(RatAdd(active.low, active.high), Rational(2, 1))
         leftHalf == RationalInterval(active.low, mid)
         ansLeft  == rationalTest("reflexive", seed, leftHalf).status
     IN  queue' = [queue EXCEPT !.running =
                     [@ EXCEPT !.active = bisectStep(active, ansLeft, -1, -1),
                               !.iter = @ + 1]]
  /\ UNCHANGED <<kind, seed, yes, op, req, ans, err, calls, prevYes, run, other>>

\* A caller that awaits each narrowing call before making the next: it
\* calls oracle.narrowing(oracle.yes, precision) when no task is in the queue.
AwaitedSubmit ==
  /\ queueAdded(queue) = queue.settled
  /\ Submit

\* reflexiveOracle(q, initialYes) with q in initialYes.
InitInterleave ==
  /\ kind = "test"
  /\ yes \in Intervals
  /\ seed \in {q \in Points : containsValue(yes, q)}
  /\ op = "idle"
  /\ req = Null
  /\ ans = Null
  /\ err = "none"
  /\ calls = <<>>
  /\ prevYes = yes
  /\ run = Null
  /\ other = Null
  /\ queue = EmptyQueue

NextInterleave ==
  \/ AwaitedSubmit \/ TaskBegin \/ ReflexiveBisect \/ TestTaskEnd
  \/ QueryBegin \/ QueryEnd \/ QueryReturn

SpecInterleave == InitInterleave /\ [][NextInterleave]_vars

(***************************************************************************)
(* The generic bisection narrowing of makeTestOracle, turn by turn.  run   *)
(* is the call in progress: what it read from oracle.yes, its active       *)
(* interval, iter and where it stands; calls are the calls the last turn   *)
(* of the loop made to the predicate.                                      *)
(***************************************************************************)
\* The calls one turn of the loop makes to the predicate, which answers
\* ansLeft, ansRight and ansMid on the left, right and middle halves.
bisectAsked(active, ansLeft, ansRight, ansMid) ==
  LET mid        == RatDivide(RatAdd(active.low, active.high), Rational(2, 1))
      leftHalf   == RationalInterval(active.low, mid)
      rightHalf  == RationalInterval(mid, active.high)
      L1         == RatDivide(RatAdd(active.low, mid), Rational(2, 1))
      R1         == RatDivide(RatAdd(mid, active.high), Rational(2, 1))
      middleHalf == RationalInterval(L1, R1)
      askLeft    == [fn |-> "test", arg |-> leftHalf, result |-> ansLeft]
      askRight   == [fn |-> "test", arg |-> rightHalf, result |-> ansRight]
      askMid     == [fn |-> "test", arg |-> middleHalf, result |-> ansMid]
  IN  IF ansLeft # -1 THEN <<askLeft>>
      ELSE IF ansRight # -1 THEN <<askLeft, askRight>>
      ELSE <<askLeft, askRight, askMid>>

\* oracle.narrowing(current, precision) starts: oracle.yes is read.
GenericBegin ==
  /\ op = "idle" /\ run = Null
  /\ \E precision \in Precisions :
       /\ run' = narrowingBegin(kind, narrowingTask(1, yes, precision), yes)
       /\ req' = [precision |-> precision]
  /\ op' = "running"
  /\ prevYes' = yes
  /\ UNCHANGED <<queue, kind, seed, yes, ans, err, calls, other>>

\* One turn of the loop.
GenericBisect ==
  /\ op = "running"
  /\ bisectionContinues(run)
  /\ \E l \in Status, r \in Status, m \in Status :
       LET n == bisectStep(run.active, l, r, m) IN
       /\ run' = IF n = Null THEN [run EXCEPT !.pc = "stuck"]
                  ELSE [run EXCEPT !.active = n, !.iter = @ + 1]
       /\ calls' = bisectAsked(run.active, l, r, m)
  /\ UNCHANGED <<queue, kind, seed, yes, op, req, ans, err, prevYes, other>>

\* The call ends: return active at once, or oracle.yes = active; return
\* active.
GenericEnd ==
  /\ op = "running"
  /\ ~bisectionContinues(run)
  /\ yes' = (IF run.pc = "return" THEN yes ELSE run.active)
  /\ ans' = run.active
  /\ op' = "narrowing"
  /\ UNCHANGED <<queue, kind, seed, req, err, calls, prevYes, run, other>>

\* The caller has the interval.
GenericReturn ==
  /\ op = "narrowing"
  /\ op' = "idle"
  /\ req' = Null
  /\ ans' = Null
  /\ calls' = <<>>
  /\ run' = Null
  /\ prevYes' = yes
  /\ UNCHANGED <<queue, kind, seed, yes, err, other>>

\* makeTestOracle(initialYes, test)
InitGeneric ==
  /\ kind = "test"
  /\ yes \in Intervals
  /\ seed = Null
  /\ op = "idle"
  /\ req = Null
  /\ ans = Null
  /\ err = "none"
  /\ calls = <<>>
  /\ prevYes = yes
  /\ run = Null
  /\ other = Null
  /\ queue = EmptyQueue

NextGeneric == GenericBegin \/ GenericBisect \/ GenericEnd \/ GenericReturn

SpecGeneric == InitGeneric /\ [][NextGeneric]_vars

(***************************************************************************)
(* Properties of the factories (specification Spec).                       *)
(***************************************************************************)
\* A query has just returned or thrown.
Queried == op = "query"

\* The width of the interval i.
Width(i) == RatSubtract(i.high, i.low)

\* The query q is not settled by the fast path on the yes interval y.
ambiguous(y, q) ==
  /\ intersection(q.ab, y) # Null
  /\ ~contains(halo(q.ab, q.delta), y)

\* C1: every Yes answer of a makeAlgorithmOracle oracle carries a prophecy
\* that intersects the query interval ab and lies inside halo(ab, delta),
\* on the fast path and after refinement alike.
C1_YesInHaloAndIntersects ==
  (Queried /\ kind \in AlgKinds /\ ans.status = 1)
    => /\ intersection(req.ab, ans.prophecy) # Null
       /\ contains(halo(req.ab, req.delta), ans.prophecy)

\* C2: every No answer of a makeTestOracle or makeAlgorithmOracle oracle
\* that carries a prophecy has that prophecy disjoint from the query
\* interval ab, the No given after the predicate answered No included.
C2_NoProphecyDisjoint ==
  (Queried /\ err = "none" /\ ans.status = 0 /\ ans.prophecy # Null)
    => intersection(req.ab, ans.prophecy) = Null

\* C3: a query whose interval is disjoint from the current yes returns No
\* with prophecy yes, and a query whose halo contains a yes that intersects
\* ab returns Yes with prophecy yes; neither calls the predicate or the
\* algorithm, neither changes yes.
C3_FastPath ==
  Queried =>
    /\ intersection(req.ab, prevYes) = Null
         => ans = Answer(0, prevYes) /\ calls = <<>> /\ yes = prevYes /\ err = "none"
    /\ (/\ intersection(req.ab, prevYes) # Null
        /\ contains(halo(req.ab, req.delta), prevYes))
         => ans = Answer(1, prevYes) /\ calls = <<>> /\ yes = prevYes /\ err = "none"

\* A test oracle answered Yes on the fast path for a query that does not
\* contain yes itself (only its halo does).
C3_Witness ==
  /\ Queried /\ kind = "test"
  /\ ans = Answer(1, prevYes)
  /\ ~contains(req.ab, prevYes)
  /\ calls = <<>>

\* C4: over queries and generic-bisection narrowing calls on a
\* makeTestOracle oracle, each new yes is a sub-interval of the previous
\* yes, whatever the predicate answers.
C4_TestYesShrinks ==
  (kind = "test" /\ op \in {"query", "narrowing"}) => contains(prevYes, yes)

\* A query of a test oracle strictly shrank yes at both ends.
C4_Witness ==
  /\ kind = "test" /\ Queried /\ err = "none"
  /\ lessThan(prevYes.low, yes.low)
  /\ lessThan(yes.high, prevYes.high)

\* C5: the yes of a makeAlgorithmOracle oracle is never widened: after a
\* query or a narrowing call it is contained in the yes held before,
\* whatever interval the algorithm returns.
C5_AlgYesNeverWidened ==
  (kind \in AlgKinds /\ op \in {"query", "narrowing"}) => contains(prevYes, yes)

\* C8: an ambiguous query of a makeAlgorithmOracle oracle calls the
\* refinement once, on the current yes with target precision delta, and an
\* algorithm result of width <= delta is answered Yes or No, never Maybe;
\* such a result lies inside halo(ab, delta) when it intersects ab.
C8_RefineToDelta ==
  (Queried /\ kind \in AlgKinds /\ ambiguous(prevYes, req)) =>
    /\ Len(calls) = 1
    /\ calls[1].current = prevYes
    /\ calls[1].precision = req.delta
    /\ lessThanOrEqual(Width(calls[1].result), req.delta) =>
         /\ ans.status \in {0, 1}
         /\ intersection(req.ab, calls[1].result) # Null
              => contains(halo(req.ab, req.delta), calls[1].result)

\* An ambiguous query was refined to a proper interval of width <= delta
\* that sticks out of ab, and was answered Yes.
C8_Witness ==
  /\ Queried /\ kind = "alg" /\ ambiguous(prevYes, req)
  /\ lessThanOrEqual(Width(calls[1].result), req.delta)
  /\ lessThan(Zero, Width(calls[1].result))
  /\ intersection(req.ab, calls[1].result) # Null
  /\ ~contains(req.ab, calls[1].result)
  /\ ans.status = 1

\* C9: when the refined interval still intersects ab and is not inside
\* halo(ab, delta), the query returns Maybe carrying the refined interval,
\* which is the new yes; a fromInterval(I) or fromRational oracle returns
\* Maybe with prophecy I, and keeps yes = I, on every query that
\* intersects I without its halo containing I.
C9_MaybeCarriesRefined ==
  (Queried /\ kind \in AlgKinds) =>
    /\ (ambiguous(prevYes, req) /\ ambiguous(calls[1].result, req))
         => ans = Answer(-1, calls[1].result) /\ yes = calls[1].result
    /\ (kind \in {"fromInterval", "fromRational"} /\ ambiguous(seed, req))
         => ans = Answer(-1, seed) /\ yes = seed /\ prevYes = seed

\* A fromInterval oracle answered Maybe.
C9_Witness ==
  /\ Queried /\ kind = "fromInterval"
  /\ ambiguous(seed, req)
  /\ ans.status = -1

C23_OwnYesIsYes ==
  /\ (op = "idle") => \A delta \in Deltas :
       IF kind = "test"
         THEN \A r1 \in {Answer(st, Null) : st \in Status},
                 r2 \in {Answer(st, Null) : st \in Status} :
                LET out == testOracleCall(yes, yes, delta, r1, r2)
                IN  out.ans = Answer(1, yes) /\ out.yes = yes /\ out.err = "none"
         ELSE \A result \in algResults(kind, seed, yes, delta) :
                LET out == algOracleCall(yes, yes, delta, result)
                IN  out.ans = Answer(1, yes) /\ out.yes = yes /\ out.err = "none"
  /\ (op = "query" /\ req.ab = prevYes) =>
       (ans = Answer(1, prevYes) /\ yes = prevYes /\ err = "none" /\ calls = <<>>)

\* A test oracle is asked about its own yes, which is not a point, with
\* delta = 0 and has answered Yes.
C23_Witness ==
  /\ op = "query" /\ kind = "test"
  /\ req.ab = prevYes /\ req.delta = Zero
  /\ lessThan(yes.low, yes.high)
  /\ ans = Answer(1, yes)

\* C28: in a makeAlgorithmOracle oracle, a refinement interval returned by
\* alg that is disjoint from the established yes aborts the query or the
\* narrowing call with an error, and yes keeps its previous value: the
\* interval is neither installed as yes nor answered with a normal No.
C28_DisjointRefinementAborts ==
  (/\ op \in {"query", "narrowing"}
   /\ kind = "alg"
   /\ calls # <<>>
   /\ intersection(calls[1].result, prevYes) = Null)
    => (err # "none" /\ ans = Null /\ yes = prevYes)

(***************************************************************************)
(* Properties of the narrowing engine (specification SpecNarrow).          *)
(***************************************************************************)
\* C6: for an oracle naming the rational q whose yes was seeded with a
\* wider interval containing q, the interval narrowWithCutter returns and
\* writes to oracle.yes contains q, for every cutter and precision > 0;
\* so does the interval of narrow's midpoint bisection on an oracle
\* without a narrowing method.
C6_NarrowedContainsNamed ==
  (\/ op = "narrowWithCutter" /\ kind = "fromRational"
   \/ op = "narrow" /\ ~hasNarrowing(kind))
    => /\ yes = ans
       /\ containsValue(yes, named(kind, seed))

\* C13: when narrow(oracle, precision) returns, oracle.yes is the interval
\* returned; and when every call of the oracle's narrowing method made
\* progress (returned a proper sub-interval of the interval it started
\* from, as a strategy that halves the interval does), the interval
\* returned has width <= precision.
C13_NarrowReachesPrecision ==
  (op \in {"narrow", "narrowOnce"}) =>
    /\ yes = ans
    /\ (hasNarrowing(kind) /\ ~req.stalled)
         => lessThanOrEqual(Width(ans), RatAbs(req.precision))

\* C14: a call of narrow never leaves oracle.yes wider than it was before
\* the call, whatever the precision; so a second call with the same
\* precision does not widen yes and the width of yes is non-increasing
\* over a series of calls.
C14_NarrowNeverWidens ==
  (op \in {"narrow", "narrowOnce"}) => lessThanOrEqual(Width(yes), Width(prevYes))

(***************************************************************************)
(* Properties of the composed oracles (specification SpecArith).           *)
(***************************************************************************)
\* C7: op(fromRational(p), fromRational(q)) and fromRational(p op q) have
\* the same yes interval [p op q, p op q] and return the same status for
\* every query interval ab and every delta >= 0.
C7_ComposedAgreesWithExact ==
  (kind \in ArithKinds /\ other # Null) =>
    /\ yes = other.yes
    /\ yes.low = applyOp(kind, seed.a.low, seed.b.low) /\ yes.high = yes.low
    /\ Queried => ans.status = other.ans.status

PointZero == RationalInterval(Zero, Zero)

\* C15: divide(numer, denom) throws at construction, and returns no oracle,
\* whenever the denominator's yes is exactly [0, 0], whatever the
\* numerator's yes is.
C15_DivideByKnownZeroThrows ==
  (op = "construct" /\ kind = "divide" /\ seed.b = PointZero) =>
    /\ err # "none"
    /\ other = Null

\* divide has thrown for a numerator that is not a point.
C15_Witness ==
  /\ op = "construct" /\ kind = "divide" /\ seed.b = PointZero
  /\ seed.a.low # seed.a.high
  /\ err # "none"

\* C16: divide with a denominator whose yes contains zero without being the
\* point zero does not throw at construction: it warns, and the interval
\* its yes is divided by is the denominator's yes with the end next to zero
\* replaced by +-1/1000000000, an interval that does not contain zero.
C16_DivideWarnsAndNudges ==
  (op = "construct" /\ kind = "divide" /\ containsZero(seed.b) /\ seed.b # PointZero) =>
    /\ err = "none"
    /\ other # Null
    /\ other.warned
    /\ ~containsZero(other.safeDen)
    /\ \/ other.safeDen = RationalInterval(Eps, seed.b.high)
       \/ other.safeDen = RationalInterval(seed.b.low, RatSubtract(Zero, Eps))

\* divide has warned for a denominator with zero in its interior and kept
\* the positive side.
C16_Witness ==
  /\ op = "construct" /\ kind = "divide"
  /\ lessThan(seed.b.low, Zero) /\ lessThan(Zero, seed.b.high)
  /\ err = "none" /\ other # Null /\ other.warned
  /\ other.safeDen.low = Eps

C18_AddSubtractHalfDelta ==
  (op = "compute" /\ kind \in {"add", "subtract"}) =>
    LET half == RatDivide(req.delta, Rational(2, 1)) IN
    /\ lessThanOrEqual(req.subDelta, half)
    /\ (lessThanOrEqual(Width(seed.a), half) /\ lessThanOrEqual(Width(seed.b), half))
         => (err = "none" /\ lessThanOrEqual(Width(ans), req.delta))

\* add has refined both operands to intervals of width delta/2 and the sum
\* is exactly delta wide.
C18_Witness ==
  /\ op = "compute" /\ kind = "add"
  /\ seed.a # req.before.a /\ seed.b # req.before.b
  /\ Width(seed.a) = RatDivide(req.delta, Rational(2, 1))
  /\ Width(seed.b) = RatDivide(req.delta, Rational(2, 1))
  /\ ans # Null /\ Width(ans) = req.delta

\* C19: multiply narrows its operands to delta/(2M), M the larger of the
\* operands' magnitudes, and to delta when M < 1/2; divide narrows them to
\* delta * dMin^2 / (dMin + nMag) when dMin > 0.  When both operands end
\* inside their previous yes and no wider than that target, the product or
\* quotient compute returns is no wider than delta.
C19_ProductQuotientWithinDelta ==
  (op = "compute" /\ kind \in {"multiply", "divide"}) =>
    LET A      == req.before.a
        B      == req.before.b
        absA   == RatMax({RatAbs(A.low), RatAbs(A.high)})
        absB   == RatMax({RatAbs(B.low), RatAbs(B.high)})
        M      == RatMax({absA, absB})
        dMin   == IF containsZero(B) THEN Zero
                  ELSE RatMin({RatAbs(B.low), RatAbs(B.high)})
        target == IF kind = "multiply"
                    THEN IF lessThan(M, Rational(1, 2)) THEN req.delta
                         ELSE RatDivide(req.delta, RatMultiply(Rational(2, 1), M))
                    ELSE RatDivide(RatMultiply(req.delta, RatMultiply(dMin, dMin)),
                                   RatAdd(dMin, absA))
        reached == /\ contains(A, seed.a) /\ contains(B, seed.b)
                   /\ lessThanOrEqual(Width(seed.a), target)
                   /\ lessThanOrEqual(Width(seed.b), target)
    IN  (kind = "multiply" \/ dMin # Zero) =>
          /\ req.subDelta = target
          /\ reached => (err = "none" /\ lessThanOrEqual(Width(ans), req.delta))

\* divide has refined a denominator away from zero to a narrower interval
\* that is not a point, and returned a quotient of positive width.
C19_Witness ==
  /\ op = "compute" /\ kind = "divide"
  /\ ~containsZero(req.before.b)
  /\ seed.b # req.before.b
  /\ seed.a.low # seed.a.high /\ seed.b.low # seed.b.high
  /\ lessThanOrEqual(Width(seed.a), req.subDelta)
  /\ lessThanOrEqual(Width(seed.b), req.subDelta)
  /\ err = "none" /\ ans # Null /\ ans.low # ans.high

(***************************************************************************)
(* Properties of nRoot (specification SpecRoot).                           *)
(***************************************************************************)
\* C20: for q > 0, guess > 0 and n >= 2, after any number of narrowing calls
\* of nRoot yes = [lo, hi] is the interval between the current guess and
\* its partner q / guess^(n-1), and lo^n <= q <= hi^n.  A narrowing call
\* with precision p makes Newton steps guess := ((n-1)*guess + partner)/n,
\* one while hi - lo > p, and at most 100 of them.
C20_NRootBracketsRoot ==
  LET q  == seed.q
      n  == seed.n
      st(i) == IF i = 0 THEN req.before ELSE calls[i]
  IN
  /\ run.partner = RatDivide(q, RatPow(run.guess, n - 1))
  /\ yes.low = RatMin({run.guess, run.partner})
  /\ yes.high = RatMax({run.guess, run.partner})
  /\ lessThanOrEqual(RatPow(yes.low, n), q)
  /\ lessThanOrEqual(q, RatPow(yes.high, n))
  /\ (op = "narrowing") =>
       /\ ans = yes
       /\ Len(calls) <= 100
       /\ \A i \in 1..Len(calls) :
            /\ greaterThan(Width(st(i - 1).yes), req.precision)
            /\ calls[i].guess =
                 RatDivide(RatAdd(RatMultiply(Rational(n - 1, 1), st(i - 1).guess),
                                  st(i - 1).partner),
                           Rational(n, 1))
       /\ st(Len(calls)).yes = yes
       /\ lessThanOrEqual(Width(yes), req.precision) \/ Len(calls) = 100

\* A later narrowing call on a square root, its guess already moved by an
\* earlier call, has made a further Newton step and yes is not a point.
C20_Witness ==
  /\ op = "narrowing"
  /\ seed.n = 2
  /\ req.before.guess # seed.guess
  /\ Len(calls) >= 1
  /\ lessThan(yes.low, yes.high)

(***************************************************************************)
(* Properties of IVTRoot (specification SpecIVT).                          *)
(***************************************************************************)
\* C21: for f with f(a) * f(b) < 0 on the initial interval, every interval
\* the narrowing of IVTRoot produces has f(lo) * f(hi) <= 0 and is the left
\* or the right half of the interval before it, except that a midpoint with
\* f(mid) = 0 ends the call at once with [mid, mid]; otherwise the call
\* ends when the width is <= precision, or after 100 bisections.
C21_IVTKeepsSignChange ==
  LET f == seed.f
      signChange(i) == lessThanOrEqual(RatMultiply(fEval(f, i.low), fEval(f, i.high)), Zero)
      mid(i) == RatDivide(RatAdd(i.low, i.high), Rational(2, 1))
      st(k) == IF k = 0 THEN prevYes ELSE calls[k]
  IN
  /\ signChange(yes)
  /\ (op = "narrowing") =>
       /\ ans = yes /\ st(Len(calls)) = yes
       /\ Len(calls) <= 100
       /\ \A k \in 1..Len(calls) :
            LET before == st(k - 1) IN
            /\ greaterThan(Width(before), req.precision)
            /\ signChange(calls[k])
            /\ IF fEval(f, mid(before)) = Zero
                 THEN calls[k] = RationalInterval(mid(before), mid(before)) /\ k = Len(calls)
                 ELSE \/ calls[k] = RationalInterval(before.low, mid(before))
                      \/ calls[k] = RationalInterval(mid(before), before.high)
       /\ \/ lessThanOrEqual(Width(yes), req.precision)
          \/ Len(calls) = 100

\* A narrowing call has halved the interval at least once and then ended
\* at a midpoint that is an exact root.
C21_Witness ==
  /\ op = "narrowing"
  /\ Len(calls) >= 2
  /\ lessThan(calls[1].low, calls[1].high)
  /\ yes.low = yes.high
  /\ fEval(seed.f, yes.low) = Zero

\* C25: Disjointness for IVTRoot: a query ab that is disjoint from the
\* oracle's yes, asked with a delta smaller than the distance between ab
\* and yes, is never answered Yes.
C25_DisjointNeverYes ==
  (op = "query") =>
    LET farLeft  == lessThan(req.ab.high, prevYes.low) /\
                    lessThan(req.delta, RatSubtract(prevYes.low, req.ab.high))
        farRight == lessThan(prevYes.high, req.ab.low) /\
                    lessThan(req.delta, RatSubtract(req.ab.low, prevYes.high))
    IN  (farLeft \/ farRight) => ans.status # 1

(***************************************************************************)
(* Properties of KantorovichRoot (specification SpecKantorovich).          *)
(***************************************************************************)
\* C22: with f'(guess) # 0 and minp # 0, KantorovichRoot throws at
\* construction exactly when h = |f(guess)/f'(guess)| * maxpp / (2 * minp)
\* exceeds 1/4; for h <= 1/4, h = 1/4 included, it returns an oracle whose
\* yes is [guess - 2*beta, guess + 2*beta], beta = |f(guess)/f'(guess)|.
C22_KantorovichCondition ==
  (op = "construct") =>
    LET g    == seed.guess
        beta == RatAbs(RatDivide(fEval(seed.f, g), fprimeEval(seed.f, g)))
        h    == RatDivide(RatMultiply(beta, seed.maxpp),
                          RatMultiply(Rational(2, 1), seed.minp))
        two  == RatMultiply(Rational(2, 1), beta)
    IN  /\ (err # "none") <=> greaterThan(h, Rational(1, 4))
        /\ (err # "none") => (yes = Null /\ run = Null)
        /\ (err = "none") =>
             /\ run # Null
             /\ yes = RationalInterval(RatSubtract(g, two), RatAdd(g, two))

\* KantorovichRoot has returned an oracle for h = 1/4 exactly, with a yes
\* that is not a point.
C22_Witness ==
  /\ op = "construct" /\ err = "none" /\ run # Null
  /\ calcState(seed.f, seed.maxpp, seed.minp, seed.guess).h = Rational(1, 4)
  /\ lessThan(yes.low, yes.high)

\* C29: a query to a KantorovichRoot oracle is never answered No while ab
\* intersects the oracle's yes: every No carries a prophecy disjoint from
\* the query, and a query the current yes cannot settle is answered Maybe.
C29_NoOnlyWhenDisjoint ==
  (op = "query") =>
    /\ ans.status = 0 => intersection(req.ab, ans.prophecy) = Null
    /\ (intersection(req.ab, yes) # Null /\ ~contains(halo(req.ab, req.delta), yes))
         => ans.status = -1

C26_BisectionWithinMaxIterations ==
  (op = "query") =>
    LET q      == seed.q
        st(k)  == IF k = 0 THEN (IF prevYes.low = q THEN prevYes.high ELSE prevYes.low)
                  ELSE calls[k]
        final  == qri(q, run)
        inside == contains(halo(req.ab, req.delta), final)
        apart  == intersection(req.ab, final) = Null
    IN
    /\ \A k \in 1..Len(calls) :
         calls[k] = RatDivide(RatAdd(st(k - 1), q), Rational(2, 1))
    /\ Len(calls) <= seed.maxIterations
    /\ ans.status = 1 => inside
    /\ ans.status = 0 => apart
    /\ ans.status = -1 => (Len(calls) = seed.maxIterations /\ ~inside /\ ~apart)

(***************************************************************************)
(* Properties of queries during narrowing (specification SpecInterleave).  *)
(***************************************************************************)
\* C27: when a query has tightened yes while a narrowing task of the same
\* makeTestOracle oracle was running, the interval that task writes to yes
\* at its end lies inside the yes the query left: no update is lost.
C27_NoLostUpdate ==
  (/\ other # Null
   /\ queue.last # Null
   /\ queue.last.id = other.during) => contains(other.tightened, yes)

(***************************************************************************)
(* Properties of the generic bisection narrowing (specification            *)
(* SpecGeneric).                                                           *)
(***************************************************************************)
\* C30: the generic bisection narrowing of makeTestOracle terminates: it
\* takes at most 100 bisection steps with at most three predicate calls
\* each, returns at once without calling the predicate when
\* width(yes) <= precision, and halts without an error when the left, right
\* and middle halves are all undecided; the interval it writes to yes is a
\* sub-interval of the yes it started from, of width <= precision unless
\* the call stopped at the cap or stuck.
C30_GenericBisectionTerminates ==
  (run # Null) =>
    LET narrow == lessThanOrEqual(Width(run.read), run.precision) IN
    /\ run.read = prevYes
    /\ run.iter <= 100
    /\ Len(calls) <= 3
    /\ contains(run.read, run.active)
    /\ err = "none"
    /\ narrow <=> (run.pc = "return")
    /\ narrow => (run.iter = 0 /\ calls = <<>> /\ run.active = run.read)
    /\ (run.pc = "stuck") =>
         (Len(calls) = 3 /\ \A k \in 1..3 : calls[k].result # 1)
    /\ (op = "running") => yes = prevYes
    /\ (op = "narrowing") =>
         /\ ans = run.active /\ yes = run.active
         /\ contains(prevYes, yes)
         /\ \/ lessThanOrEqual(Width(yes), run.precision)
            \/ run.iter = 100
            \/ run.pc = "stuck"

\* A narrowing call has halved the interval, then found the left, the
\* right and the middle halves undecided, and has ended with an interval
\* wider than the precision.
C30_Witness ==
  /\ op = "narrowing"
  /\ run.pc = "stuck" /\ run.iter >= 1
  /\ Len(calls) = 3
  /\ yes # prevYes
  /\ greaterThan(Width(yes), run.precision)

=============================================================================
